---- MODULE Spec2Model ----
(***************************************************************************)
(* threadsafe_queue<T> (include/threadsafe_queue.hpp): a singly linked     *)
(* list with a head mutex, a tail mutex and a condition variable.  Every   *)
(* step below is one statement of the header; a thread's pc is its place   *)
(* in the member function it is executing.                                 *)
(***************************************************************************)
EXTENDS Integers, Sequences, FiniteSets, TLC

\* ---------------------------------------------------------------- bounds
NThreads == 3       \* calling threads
MaxCalls == 2       \* calls one thread makes
MaxTotal == 3       \* calls all threads of an unordered plan make together
MaxPush == 3        \* pushes of a producer/consumer plan
MaxSpurious == 1    \* spurious wakeups of the condition variable in one run
MaxBadAlloc == 1    \* allocations that fail in one run

Threads == 1..NThreads
MaxNodes == NThreads * (MaxCalls + 1) + 1

\* nullptr, for node pointers and for shared_ptr<T> payload pointers
NULL == 0
\* std::mutex that no thread owns
NoOwner == 0

Ops == {"push", "try_pop", "try_pop_v", "wait_and_pop", "wait_and_pop_v", "empty"}
HeadOps == Ops \ {"push"}
WaitOps == {"wait_and_pop", "wait_and_pop_v"}

VARIABLES
    head_,          \* std::unique_ptr<node_t> head_ : node id or NULL
    tail_,          \* node_t* tail_
    node_data,      \* node_t::data of every node address: payload id or NULL
    node_next,      \* node_t::next of every node address: node id or NULL
    live,           \* node addresses allocated and not yet deleted
    nnodes,         \* node addresses handed out by make_unique so far
    payload,        \* payload[i]: the T held by the i-th make_shared<T>
    head_mutex_,    \* owner of head_mutex_, or NoOwner
    tail_mutex_,    \* owner of tail_mutex_, or NoOwner
    waiters,        \* threads blocked inside data_cond_.wait
    spurious,       \* spurious wakeups so far
    crashed,        \* the process was terminated by a memory fault
    plan,           \* plan[t]: the member function t calls, how often, after whom
    todo,           \* calls t has still to make
    bad_allocs,     \* allocations that failed so far
    pc,             \* where t is
    node,           \* push: the local `node` (new placeholder)
    ldata,          \* push: the local `data` (new payload)
    ltail,          \* the value get_tail() returned to t
    old_head,       \* pop_head: the local `old_head`
    result,         \* what t's last call returned
    value,          \* the caller's T& value of t
    pushedBy,       \* pushedBy[i]: the thread whose push allocated payload i
    pushLog,        \* payload ids in the order pushes stored them (line 53)
    popLog          \* what the pops returned, in the order they returned

vars == <<head_, tail_, node_data, node_next, live, nnodes, payload, head_mutex_,
          tail_mutex_, waiters, spurious, crashed, plan, todo, bad_allocs, pc, node,
          ldata, ltail, old_head, result, value, pushedBy, pushLog, popLog>>

heap == <<node_data, node_next, live, nnodes, payload>>
locks == <<head_mutex_, tail_mutex_>>
locals == <<node, ldata, ltail, old_head>>
calls == <<plan, todo, bad_allocs>>
logs == <<pushedBy, pushLog, popLog>>

\* ------------------------------------------------------------ result values
NoResult == [kind |-> "none", ref |-> 0]
PtrResult(p) == [kind |-> "ptr", ref |-> p]
BoolResult(b) == [kind |-> "bool", ref |-> IF b THEN 1 ELSE 0]
Unset == [kind |-> "unset", ref |-> 0]
PayloadValue(p) == [kind |-> "payload", ref |-> p]
NodeHandle(n) == [kind |-> "node", ref |-> n]
\* the call ended with std::bad_alloc
BadAlloc == [kind |-> "bad_alloc", ref |-> 0]

\* popLog entries: a pop that reported the queue empty; a pop that detached
\* old_head[t] and handed the caller r (a payload, or a node)
Absent(t) == [thread |-> t, kind |-> "absent", ref |-> 0, detached |-> 0]
Found(t, k, r) == [thread |-> t, kind |-> k, ref |-> r, detached |-> old_head[t]]

\* ------------------------------------------------------------------ plans
\* The callers: thread t calls plan[t].op plan[t].n times, and makes its first
\* call once every thread of plan[t].after has returned from its last one.
OpOrder == <<"push", "try_pop", "try_pop_v", "wait_and_pop", "wait_and_pop_v", "empty">>
Rank(o) == CHOOSE i \in 1..Len(OpOrder) : OpOrder[i] = o
NoCalls == [op |-> "empty", n |-> 0]
ThreadPlans(max) == {NoCalls} \cup [op : Ops, n : 1..max]
Key(c) == IF c.n = 0 THEN 0 ELSE Rank(c.op) * (2 * MaxCalls + 1) + c.n
RECURSIVE SumCalls(_, _)
SumCalls(f, k) == IF k = 0 THEN 0 ELSE f[k].n + SumCalls(f, k - 1)

\* threads running concurrently (threads are interchangeable: one order of each)
UnorderedPlans ==
    { [t \in Threads |-> [op |-> f[t].op, n |-> f[t].n, after |-> {}]] :
        f \in { g \in [Threads -> ThreadPlans(MaxCalls)] :
                  /\ SumCalls(g, NThreads) \in 1..MaxTotal
                  /\ \A t \in 1..(NThreads - 1) : Key(g[t]) >= Key(g[t + 1]) } }

\* threads running one after the other: t starts when 1..t-1 have finished
OrderedPlans ==
    { [t \in Threads |-> [op |-> f[t].op, n |-> f[t].n, after |-> 1..(t - 1)]] :
        f \in { g \in [Threads -> ThreadPlans(MaxCalls + 1)] :
                  /\ g[1].n \in 1..MaxCalls
                  /\ \A t \in 3..NThreads : g[t].n <= 1 } }

\* producers and consumers running concurrently: as many wait_and_pop() calls
\* as push calls
RECURSIVE SumOf(_, _, _)
SumOf(f, o, k) ==
    IF k = 0 THEN 0
    ELSE (IF f[k].op = o THEN f[k].n ELSE 0) + SumOf(f, o, k - 1)
ProducerConsumerPlans ==
    { [t \in Threads |-> [op |-> f[t].op, n |-> f[t].n, after |-> {}]] :
        f \in { g \in [Threads -> {NoCalls} \cup [op : {"push"}, n : 1..MaxCalls]
                                    \cup [op : {"wait_and_pop"}, n : 1..(2 * MaxCalls)]] :
                  /\ SumOf(g, "push", NThreads) = SumOf(g, "wait_and_pop", NThreads)
                  /\ SumOf(g, "push", NThreads) \in 1..MaxPush
                  /\ \A t \in 1..(NThreads - 1) : Key(g[t]) >= Key(g[t + 1]) } }

Plans == UnorderedPlans \cup OrderedPlans \cup ProducerConsumerPlans

Ordered == \A t \in Threads : plan[t].after = 1..(t - 1)
Finished(t) == pc[t] = "idle" /\ todo[t] = 0

\* ------------------------------------------------------------------- Init
\* threadsafe_queue(): one placeholder node, head_ and tail_ both refer to it.
Init ==
    /\ head_ = 1
    /\ tail_ = 1
    /\ node_data = [n \in 1..MaxNodes |-> NULL]
    /\ node_next = [n \in 1..MaxNodes |-> NULL]
    /\ live = {1}
    /\ nnodes = 1
    /\ payload = <<>>
    /\ head_mutex_ = NoOwner
    /\ tail_mutex_ = NoOwner
    /\ waiters = {}
    /\ spurious = 0
    /\ crashed = FALSE
    /\ plan \in Plans
    /\ todo = [t \in Threads |-> plan[t].n]
    /\ bad_allocs = 0
    /\ pc = [t \in Threads |-> "idle"]
    /\ node = [t \in Threads |-> NULL]
    /\ ldata = [t \in Threads |-> NULL]
    /\ ltail = [t \in Threads |-> NULL]
    /\ old_head = [t \in Threads |-> NULL]
    /\ result = [t \in Threads |-> NoResult]
    /\ value = [t \in Threads |-> Unset]
    /\ pushedBy = <<>>
    /\ pushLog = <<>>
    /\ popLog = <<>>

\* ------------------------------------------------------- memory and faults
\* A node pointer may be dereferenced when it is the address of a node that
\* was allocated and not deleted.  Dereferencing nullptr or a deleted node is
\* undefined behaviour: the access faults and the process is terminated, or it
\* goes through and reads or writes whatever is at that address.
Valid(p) == p \in live
\* what a read through an invalid node pointer may find as a node pointer
WildNodes == {NULL} \cup (1..nnodes)
\* what a read through an invalid pointer may find as a payload pointer
WildData == {NULL} \cup (1..Len(payload))
\* the memory fault: the process is gone, no thread takes another step
Fault == crashed' = TRUE

\* ~unique_ptr<node_t>: deletes the node and, through ~node_t, the nodes its
\* next links own
RECURSIVE Owned(_, _)
Owned(p, seen) ==
    IF p = NULL \/ p \in seen THEN seen
    ELSE Owned(node_next[p], seen \cup {p})
Delete(p) == live \ Owned(p, {})

\* ------------------------------------------------------------------- calls
\* a caller enters a member function (lines 32-37)
CanCall(t) ==
    /\ ~crashed
    /\ pc[t] = "idle"
    /\ todo[t] > 0
    /\ \A u \in plan[t].after : Finished(u)

\* the value of t's next push: every producer pushes values of its own, all
\* different
PushValue(t) == (t - 1) * (2 * MaxCalls + 1) + (plan[t].n - todo[t] + 1)

\* push, lines 48-50: the payload and the new placeholder are allocated
\* before any lock is taken
CallPush(t) ==
    /\ CanCall(t)
    /\ plan[t].op = "push"
    /\ payload' = Append(payload, PushValue(t))
    /\ ldata' = [ldata EXCEPT ![t] = Len(payload) + 1]
    /\ pushedBy' = Append(pushedBy, t)
    /\ nnodes' = nnodes + 1
    /\ live' = live \cup {nnodes + 1}
    /\ node' = [node EXCEPT ![t] = nnodes + 1]
    /\ todo' = [todo EXCEPT ![t] = @ - 1]
    /\ result' = [result EXCEPT ![t] = NoResult]
    /\ pc' = [pc EXCEPT ![t] = "p_lock"]
    /\ UNCHANGED <<head_, tail_, node_data, node_next, locks, waiters, spurious,
                   crashed, plan, bad_allocs, ltail, old_head, value, pushLog,
                   popLog>>

\* (mutant) the placeholder is allocated after the payload was stored in the
\* tail node, and that allocation fails
PushStoresThenFails(t) ==
    /\ CanCall(t)
    /\ plan[t].op = "push"
    /\ bad_allocs < MaxBadAlloc
    /\ bad_allocs' = bad_allocs + 1
    /\ node_data' = [node_data EXCEPT ![tail_] = Len(payload) + 1]
    /\ payload' = Append(payload, PushValue(t))
    /\ pushedBy' = Append(pushedBy, t)
    /\ todo' = [todo EXCEPT ![t] = @ - 1]
    /\ result' = [result EXCEPT ![t] = BadAlloc]
    /\ UNCHANGED <<head_, tail_, node_next, live, nnodes, locks, waiters,
                   spurious, crashed, plan, pc, locals, value, pushLog, popLog>>

\* push, lines 48-50: make_shared or make_unique throws std::bad_alloc.  The
\* payload, if it was allocated, is destroyed with the local `data`; no lock
\* was taken and no member was touched; the exception leaves push.
PushBadAlloc(t) ==
    /\ CanCall(t)
    /\ plan[t].op = "push"
    /\ bad_allocs < MaxBadAlloc
    /\ bad_allocs' = bad_allocs + 1
    /\ todo' = [todo EXCEPT ![t] = @ - 1]
    /\ result' = [result EXCEPT ![t] = BadAlloc]
    /\ UNCHANGED <<head_, tail_, heap, locks, waiters, spurious, crashed, plan,
                   pc, locals, value, logs>>

\* try_pop, wait_and_pop, empty: the first statement takes head_mutex_
CallHeadOp(t) ==
    /\ CanCall(t)
    /\ plan[t].op \in HeadOps
    /\ todo' = [todo EXCEPT ![t] = @ - 1]
    /\ result' = [result EXCEPT ![t] = NoResult]
    /\ pc' = [pc EXCEPT ![t] = "h_lock"]
    /\ UNCHANGED <<head_, tail_, heap, locks, waiters, spurious, crashed, plan,
                   bad_allocs, locals, value, logs>>

\* -------------------------------------------------------------------- push
\* line 52: std::lock_guard<std::mutex> tail_lock(tail_mutex_)
PushLock(t) ==
    /\ ~crashed
    /\ pc[t] = "p_lock"
    /\ tail_mutex_ = NoOwner
    /\ tail_mutex_' = t
    /\ pc' = [pc EXCEPT ![t] = "p_data"]
    /\ UNCHANGED <<head_, tail_, heap, head_mutex_, waiters, spurious, crashed,
                   calls, locals, result, value, logs>>

\* line 53: tail_->data = data
PushData(t) ==
    /\ ~crashed
    /\ pc[t] = "p_data"
    /\ \/ /\ node_data' = [node_data EXCEPT ![tail_] = ldata[t]]
          /\ pushLog' = Append(pushLog, ldata[t])
          /\ pc' = [pc EXCEPT ![t] = "p_next"]
          /\ UNCHANGED crashed
       \/ /\ ~Valid(tail_)
          /\ Fault
          /\ UNCHANGED <<node_data, pushLog, pc>>
    /\ UNCHANGED <<head_, tail_, node_next, live, nnodes, payload, locks, waiters,
                   spurious, calls, locals, result, value, pushedBy, popLog>>

\* lines 54-55: const auto tail = node.get(); tail_->next = std::move(node)
PushNext(t) ==
    /\ ~crashed
    /\ pc[t] = "p_next"
    /\ \/ /\ node_next' = [node_next EXCEPT ![tail_] = node[t]]
          /\ pc' = [pc EXCEPT ![t] = "p_tail"]
          /\ UNCHANGED crashed
       \/ /\ ~Valid(tail_)
          /\ Fault
          /\ UNCHANGED <<node_next, pc>>
    /\ UNCHANGED <<head_, tail_, node_data, live, nnodes, payload, locks, waiters,
                   spurious, calls, locals, result, value, logs>>

\* line 56: tail_ = tail
PushTail(t) ==
    /\ ~crashed
    /\ pc[t] = "p_tail"
    /\ tail_' = node[t]
    /\ pc' = [pc EXCEPT ![t] = "p_unlock"]
    /\ UNCHANGED <<head_, heap, locks, waiters, spurious, crashed, calls, locals,
                   result, value, logs>>

\* (mutant) push goes on to lock head_mutex_, to notify under the mutex the
\* consumers wait with, before its tail_lock has gone out of scope
PushLocksHead(t) ==
    /\ ~crashed
    /\ pc[t] = "p_unlock"
    /\ pc' = [pc EXCEPT ![t] = "h_lock"]
    /\ UNCHANGED <<head_, tail_, heap, locks, waiters, spurious, crashed, calls,
                   locals, result, value, logs>>

\* line 57: the lock_guard's scope ends
PushUnlock(t) ==
    /\ ~crashed
    /\ pc[t] = "p_unlock"
    /\ tail_mutex_' = NoOwner
    /\ pc' = [pc EXCEPT ![t] = "p_notify"]
    /\ UNCHANGED <<head_, tail_, heap, head_mutex_, waiters, spurious, crashed,
                   calls, locals, result, value, logs>>

\* line 59: data_cond_.notify_one() wakes one of the threads blocked in wait,
\* if there is one; push returns
PushNotify(t) ==
    /\ ~crashed
    /\ pc[t] = "p_notify"
    /\ \/ /\ waiters = {}
          /\ pc' = [pc EXCEPT ![t] = "idle"]
          /\ UNCHANGED waiters
       \/ \E w \in waiters :
            /\ waiters' = waiters \ {w}
            /\ pc' = [pc EXCEPT ![t] = "idle", ![w] = "cv_relock"]
    /\ node' = [node EXCEPT ![t] = NULL]
    /\ ldata' = [ldata EXCEPT ![t] = NULL]
    /\ UNCHANGED <<head_, tail_, heap, locks, spurious, crashed, calls, ltail,
                   old_head, result, value, logs>>

\* ---------------------------------------------------------------- get_tail
\* lines 80, 118, 129, 141: the caller locks head_mutex_
HeadLock(t) ==
    /\ ~crashed
    /\ pc[t] = "h_lock"
    /\ head_mutex_ = NoOwner
    /\ head_mutex_' = t
    /\ pc' = [pc EXCEPT ![t] = "gt_lock"]
    /\ UNCHANGED <<head_, tail_, heap, tail_mutex_, waiters, spurious, crashed,
                   calls, locals, result, value, logs>>

\* line 65: get_tail locks tail_mutex_
GetTailLock(t) ==
    /\ ~crashed
    /\ pc[t] = "gt_lock"
    /\ tail_mutex_ = NoOwner
    /\ tail_mutex_' = t
    /\ pc' = [pc EXCEPT ![t] = "gt_read"]
    /\ UNCHANGED <<head_, tail_, heap, head_mutex_, waiters, spurious, crashed,
                   calls, locals, result, value, logs>>

\* line 66: return tail_, and the lock_guard releases tail_mutex_
GetTailRead(t) ==
    /\ ~crashed
    /\ pc[t] = "gt_read"
    /\ ltail' = [ltail EXCEPT ![t] = tail_]
    /\ tail_mutex_' = NoOwner
    /\ pc' = [pc EXCEPT ![t] = "cmp"]
    /\ UNCHANGED <<head_, tail_, heap, head_mutex_, waiters, spurious, crashed,
                   calls, node, ldata, old_head, result, value, logs>>

\* (mutant) the comparison written with != for ==
IsEmptyInverted(t) == head_ # ltail[t]

\* the comparison head_.get() == get_tail() of lines 82, 119, 130, 142
IsEmpty(t) == head_ = ltail[t]

\* a member function that took head_mutex_ returns r
Return(t, r) ==
    /\ result' = [result EXCEPT ![t] = r]
    /\ head_mutex_' = NoOwner
    /\ ltail' = [ltail EXCEPT ![t] = NULL]
    /\ old_head' = [old_head EXCEPT ![t] = NULL]
    /\ pc' = [pc EXCEPT ![t] = "idle"]

\* ------------------------------------------------------------------- empty
\* line 142
EmptyReturn(t) ==
    /\ ~crashed
    /\ pc[t] = "cmp"
    /\ plan[t].op = "empty"
    /\ Return(t, BoolResult(IsEmpty(t)))
    /\ UNCHANGED <<head_, tail_, heap, tail_mutex_, waiters, spurious, crashed,
                   calls, node, ldata, value, logs>>

\* ----------------------------------------------------------------- try_pop
\* lines 119-121 and 130-132: the queue is empty, nullptr or false is returned
TryPopEmpty(t) ==
    /\ ~crashed
    /\ pc[t] = "cmp"
    /\ plan[t].op \in {"try_pop", "try_pop_v"}
    /\ IsEmpty(t)
    /\ Return(t, IF plan[t].op = "try_pop" THEN PtrResult(NULL) ELSE BoolResult(FALSE))
    /\ popLog' = Append(popLog, Absent(t))
    /\ UNCHANGED <<head_, tail_, heap, tail_mutex_, waiters, spurious, crashed,
                   calls, node, ldata, value, pushedBy, pushLog>>

\* lines 123 and 134: the queue is not empty, pop_head is called
TryPopFound(t) ==
    /\ ~crashed
    /\ pc[t] = "cmp"
    /\ plan[t].op \in {"try_pop", "try_pop_v"}
    /\ ~IsEmpty(t)
    /\ pc' = [pc EXCEPT ![t] = "ph_move"]
    /\ UNCHANGED <<head_, tail_, heap, locks, waiters, spurious, crashed, calls,
                   locals, result, value, logs>>

\* ----------------------------------------------------------- wait_for_data
\* lines 81-83: the predicate of data_cond_.wait holds, wait_for_data returns
\* the lock (lines 91, 98)
WaitPredTrue(t) ==
    /\ ~crashed
    /\ pc[t] = "cmp"
    /\ plan[t].op \in WaitOps
    /\ ~IsEmpty(t)
    /\ pc' = [pc EXCEPT ![t] = IF plan[t].op = "wait_and_pop_v" THEN "wv_move"
                                                                ELSE "ph_move"]
    /\ UNCHANGED <<head_, tail_, heap, locks, waiters, spurious, crashed, calls,
                   locals, result, value, logs>>

\* lines 81-83: the predicate is false, the thread is about to wait
WaitPredFalse(t) ==
    /\ ~crashed
    /\ pc[t] = "cmp"
    /\ plan[t].op \in WaitOps
    /\ IsEmpty(t)
    /\ pc' = [pc EXCEPT ![t] = "cv_wait"]
    /\ UNCHANGED <<head_, tail_, heap, locks, waiters, spurious, crashed, calls,
                   locals, result, value, logs>>

\* condition_variable::wait(lock): releases head_mutex_ and blocks, atomically
CvWait(t) ==
    /\ ~crashed
    /\ pc[t] = "cv_wait"
    /\ head_mutex_' = NoOwner
    /\ waiters' = waiters \cup {t}
    /\ pc' = [pc EXCEPT ![t] = "blocked"]
    /\ UNCHANGED <<head_, tail_, heap, tail_mutex_, spurious, crashed, calls,
                   locals, result, value, logs>>

\* a blocked thread may wake without a notification
SpuriousWake(t) ==
    /\ ~crashed
    /\ pc[t] = "blocked"
    /\ t \in waiters
    /\ spurious < MaxSpurious
    /\ spurious' = spurious + 1
    /\ waiters' = waiters \ {t}
    /\ pc' = [pc EXCEPT ![t] = "cv_relock"]
    /\ UNCHANGED <<head_, tail_, heap, locks, crashed, calls, locals, result,
                   value, logs>>

\* a woken thread locks head_mutex_ again and evaluates the predicate again
CvRelock(t) ==
    /\ ~crashed
    /\ pc[t] = "cv_relock"
    /\ head_mutex_ = NoOwner
    /\ head_mutex_' = t
    /\ pc' = [pc EXCEPT ![t] = "gt_lock"]
    /\ UNCHANGED <<head_, tail_, heap, tail_mutex_, waiters, spurious, crashed,
                   calls, locals, result, value, logs>>

\* ---------------------------------------------------------------- pop_head
\* what reading p->next and p->data yields when the access goes through
ReadNext(p) == IF p = NULL THEN WildNodes ELSE {node_next[p]}
ReadData(p) == IF p = NULL THEN WildData ELSE {node_data[p]}

\* line 72: auto old_head = std::move(head_), which leaves head_ null
PopHeadMove(t) ==
    /\ ~crashed
    /\ pc[t] = "ph_move"
    /\ old_head' = [old_head EXCEPT ![t] = head_]
    /\ head_' = NULL
    /\ pc' = [pc EXCEPT ![t] = "ph_next"]
    /\ UNCHANGED <<tail_, heap, locks, waiters, spurious, crashed, calls, node,
                   ldata, ltail, result, value, logs>>

\* the pointer line 73 reads the next link through
PopHeadFrom(t) == head_

\* line 73: head_ = std::move(head_->next)
PopHeadNext(t) ==
    /\ ~crashed
    /\ pc[t] = "ph_next"
    /\ LET p == PopHeadFrom(t) IN
       \/ /\ \E g \in ReadNext(p) : head_' = g
          /\ node_next' = IF p = NULL THEN node_next
                          ELSE [node_next EXCEPT ![p] = NULL]
          /\ pc' = [pc EXCEPT ![t] = "ph_ret"]
          /\ UNCHANGED crashed
       \/ /\ ~Valid(p)
          /\ Fault
          /\ UNCHANGED <<head_, node_next, pc>>
    /\ UNCHANGED <<tail_, node_data, live, nnodes, payload, locks, waiters,
                   spurious, calls, locals, result, value, logs>>

\* lines 123 and 106: return pop_head()->data; the detached node is deleted
\* when the temporary unique_ptr goes out of scope
PopReturn(t) ==
    /\ ~crashed
    /\ pc[t] = "ph_ret"
    /\ plan[t].op \in {"try_pop", "wait_and_pop"}
    /\ \/ \E d \in ReadData(old_head[t]) :
            /\ Return(t, PtrResult(d))
            /\ popLog' = Append(popLog, Found(t, "payload", d))
            /\ live' = Delete(old_head[t])
            /\ UNCHANGED crashed
       \/ /\ ~Valid(old_head[t])
          /\ Fault
          /\ UNCHANGED <<result, head_mutex_, ltail, old_head, pc, popLog, live>>
    /\ UNCHANGED <<head_, tail_, node_data, node_next, nnodes, payload,
                   tail_mutex_, waiters, spurious, calls, node, ldata, value,
                   pushedBy, pushLog>>

\* lines 134-135: value = pop_head(); return true.  The caller's value is
\* assigned the detached node itself, which it then owns.
TryPopValueReturn(t) ==
    /\ ~crashed
    /\ pc[t] = "ph_ret"
    /\ plan[t].op = "try_pop_v"
    /\ value' = [value EXCEPT ![t] = NodeHandle(old_head[t])]
    /\ Return(t, BoolResult(TRUE))
    /\ popLog' = Append(popLog, Found(t, "node", old_head[t]))
    /\ UNCHANGED <<head_, tail_, heap, tail_mutex_, waiters, spurious, crashed,
                   calls, node, ldata, pushedBy, pushLog>>

\* line 99: value = std::move(*head_->data)
WaitValueMove(t) ==
    /\ ~crashed
    /\ pc[t] = "wv_move"
    /\ \/ \E d \in ReadData(head_) :
            /\ d # NULL
            /\ value' = [value EXCEPT ![t] = PayloadValue(d)]
            /\ pc' = [pc EXCEPT ![t] = "ph_move"]
            /\ UNCHANGED crashed
       \/ /\ ~Valid(head_) \/ NULL \in ReadData(head_)
          /\ Fault
          /\ UNCHANGED <<value, pc>>
    /\ UNCHANGED <<head_, tail_, heap, locks, waiters, spurious, calls, locals,
                   result, logs>>

\* line 100: return pop_head(), the detached node converted to bool and deleted
WaitValueReturn(t) ==
    /\ ~crashed
    /\ pc[t] = "ph_ret"
    /\ plan[t].op = "wait_and_pop_v"
    /\ Return(t, BoolResult(old_head[t] # NULL))
    /\ popLog' = Append(popLog, Found(t, "payload", value[t].ref))
    /\ live' = Delete(old_head[t])
    /\ UNCHANGED <<head_, tail_, node_data, node_next, nnodes, payload,
                   tail_mutex_, waiters, spurious, crashed, calls, node, ldata,
                   value, pushedBy, pushLog>>

\* ------------------------------------------------------------ specification
Step(t) ==
    \/ CallPush(t) \/ PushBadAlloc(t) \/ PushLock(t) \/ PushData(t) \/ PushNext(t) \/ PushTail(t)
    \/ PushUnlock(t) \/ PushNotify(t)
    \/ CallHeadOp(t) \/ HeadLock(t) \/ GetTailLock(t) \/ GetTailRead(t)
    \/ EmptyReturn(t) \/ TryPopEmpty(t) \/ TryPopFound(t)
    \/ WaitPredTrue(t) \/ WaitPredFalse(t) \/ CvWait(t) \/ CvRelock(t)
    \/ PopHeadMove(t) \/ PopHeadNext(t) \/ PopReturn(t) \/ TryPopValueReturn(t)
    \/ WaitValueMove(t) \/ WaitValueReturn(t)

Next == \E t \in Threads : Step(t) \/ SpuriousWake(t)

Spec == Init /\ [][Next]_vars

\* Every thread that can take a step takes one; a spurious wakeup is never owed.
FairSpec == Spec /\ \A t \in Threads : WF_vars(Step(t))

\* ================================================================== claims
\* the pops that reported a payload, and the payloads stored, so far
Delivered == { i \in 1..Len(popLog) : popLog[i].kind = "payload" }

\* ---- C1 ------------------------------------------------------------------
\* one producer pushes v1..vn, and when it has finished one consumer makes
\* n+1 try_pop() calls
DrainPlan ==
    /\ Ordered
    /\ plan[1].op = "push"
    /\ plan[2].op = "try_pop"
    /\ plan[2].n = plan[1].n + 1
    /\ \A t \in 3..NThreads : plan[t].n = 0

\* C1: a single producer pushes v1..vn on a fresh queue and a single consumer
\* drains it afterwards with try_pop: the consumer's calls all return, the
\* i-th returns vi and the (n+1)-th returns absent (every push having
\* succeeded).
C1_DrainInOrder ==
    DrainPlan /\ bad_allocs = 0 =>
        /\ ~crashed
        /\ \A i \in 1..Len(popLog) :
              IF i <= plan[1].n
              THEN /\ popLog[i].kind = "payload"
                   /\ popLog[i].ref \in 1..Len(payload)
                   /\ payload[popLog[i].ref] = payload[i]
              ELSE popLog[i] = Absent(2)

\* ---- C2 ------------------------------------------------------------------
\* one consumer calls wait_and_pop() once, one producer calls push once, and
\* they run concurrently
WaitPushPlan ==
    /\ plan[1] = [op |-> "wait_and_pop", n |-> 1, after |-> {}]
    /\ plan[2] = [op |-> "push", n |-> 1, after |-> {}]
    /\ \A t \in 3..NThreads : plan[t].n = 0

\* C2: with one consumer in wait_and_pop and one producer calling push(v),
\* under fair scheduling the wait_and_pop eventually returns v and does not
\* stay blocked while the queue is non-empty, whatever the interleaving.
\* Returning v implies having left the wait, so the claim is refuted by a run
\* in which the consumer stays in data_cond_.wait for ever with v in the queue.
C2_WaitNotLeftBlocked ==
    WaitPushPlan => ~<>[](pc[1] = "blocked" /\ head_ # tail_)

\* the other half of C2: the call returns, and returns the pushed value
C2_WaitReturnsPushed ==
    WaitPushPlan => <>(Finished(1) /\ result[1] = PtrResult(1))

\* ---- C3 ------------------------------------------------------------------
Pushed == { pushLog[k] : k \in 1..Len(pushLog) }

\* C3: single delivery.  Under any interleaving of threads calling push,
\* try_pop and wait_and_pop, every payload a pop returns was stored by a push
\* before, and no payload is returned by two pops.
C3_SingleDelivery ==
    /\ \A i \in Delivered : popLog[i].ref \in Pushed
    /\ \A i, j \in Delivered : i # j => popLog[i].ref # popLog[j].ref

\* ---- C4 ------------------------------------------------------------------
\* producers that only push, consumers that only call wait_and_pop(), as many
\* wait_and_pop() calls as pushes, all running concurrently
ProducerConsumerPlan ==
    /\ \A t \in Threads :
          /\ plan[t].after = {}
          /\ plan[t].n > 0 => plan[t].op \in {"push", "wait_and_pop"}
    /\ SumOf(plan, "push", NThreads) = SumOf(plan, "wait_and_pop", NThreads)
    /\ SumOf(plan, "push", NThreads) > 0

AllReturned == \A t \in Threads : Finished(t)
DeliveredOnce ==
    /\ Len(popLog) = Len(pushLog)
    /\ Len(pushLog) = Len(payload)
    /\ \A k \in 1..Len(payload) :
          Cardinality({ i \in Delivered : popLog[i].ref = k }) = 1

\* C4: no loss.  With producers pushing disjoint values and consumers that
\* together make as many wait_and_pop calls as there are pushes, under fair
\* scheduling every wait_and_pop call eventually returns and the returned
\* values are, as a multiset, the pushed ones (every push having succeeded).
C4_NoLoss ==
    ProducerConsumerPlan => <>(bad_allocs > 0 \/ (AllReturned /\ DeliveredOnce))

\* ---- C5 ------------------------------------------------------------------
\* two producers and one consumer that retrieves everything with wait_and_pop()
TwoProducersPlan ==
    /\ ProducerConsumerPlan
    /\ Cardinality({ t \in Threads : plan[t].n > 0 /\ plan[t].op = "push" }) = 2
    /\ Cardinality({ t \in Threads : plan[t].n > 0 /\ plan[t].op = "wait_and_pop" }) = 1

\* C5: per-producer FIFO.  With two producers pushing concurrently and one
\* consumer retrieving with wait_and_pop, the values of one producer are
\* retrieved in the order that producer pushed them (a producer's payloads are
\* numbered in the order of its pushes).
C5_PerProducerFifo ==
    TwoProducersPlan =>
        \A i, j \in Delivered :
            /\ i < j
            /\ popLog[i].ref \in 1..Len(payload)
            /\ popLog[j].ref \in 1..Len(payload)
            /\ pushedBy[popLog[i].ref] = pushedBy[popLog[j].ref]
            => popLog[i].ref < popLog[j].ref

\* ---- C6 ------------------------------------------------------------------
RequestsHead(t) == pc[t] \in {"h_lock", "cv_relock"}
RequestsTail(t) == pc[t] \in {"p_lock", "gt_lock"}
\* t is waiting for a mutex that u owns
WaitsFor(t, u) ==
    \/ RequestsHead(t) /\ head_mutex_ = u
    \/ RequestsTail(t) /\ tail_mutex_ = u

\* C6: no thread requests head_mutex_ while it holds tail_mutex_, a thread in
\* push never holds head_mutex_, and no two threads (nor a thread and itself)
\* wait for a mutex the other holds.
C6_LockOrder ==
    /\ \A t \in Threads : RequestsHead(t) => tail_mutex_ # t
    /\ \A t \in Threads : plan[t].op = "push" => head_mutex_ # t
    /\ \A t, u \in Threads : ~(WaitsFor(t, u) /\ WaitsFor(u, t))

\* a thread holding head_mutex_ asks for tail_mutex_ while a push holds it
C6_Witness ==
    \E t, u \in Threads :
        /\ t # u
        /\ head_mutex_ = t
        /\ pc[t] = "gt_lock"
        /\ tail_mutex_ = u
        /\ plan[u].op = "push"

\* ---- C7 ------------------------------------------------------------------
TryOps == {"try_pop", "try_pop_v"}
AbsentResult(t) ==
    IF plan[t].op = "try_pop" THEN PtrResult(NULL) ELSE BoolResult(FALSE)
\* t, in try_pop, takes a step
TryStep(t) == plan[t].op \in TryOps /\ pc'[t] # pc[t]
LeavesQueueAlone(t) ==
    /\ UNCHANGED <<head_, tail_, node_data, node_next, live>>
    /\ value'[t] = value[t]
    /\ t \notin waiters'

\* C7: try_pop (both overloads) on an empty queue returns absent (nullptr,
\* false) without waiting on the condition variable, and leaves head_, tail_,
\* the nodes and the caller's value as they were: no step of the call up to
\* the comparison changes them, and when the comparison finds head_ at the
\* tail the next step is the return of absent.
C7_TryPopEmptyAbsent ==
    [][\A t \in Threads :
          /\ TryStep(t) /\ pc[t] \in {"idle", "h_lock", "gt_lock", "gt_read"}
                => LeavesQueueAlone(t)
          /\ TryStep(t) /\ pc[t] = "cmp" /\ head_ = tail_ /\ ltail[t] = tail_
                => /\ LeavesQueueAlone(t)
                   /\ pc'[t] = "idle"
                   /\ result'[t] = AbsentResult(t)]_vars

\* both overloads have returned absent from the empty queue
C7_Witness ==
    \E t, u \in Threads :
        /\ plan[t].op = "try_pop" /\ pc[t] = "idle" /\ result[t] = PtrResult(NULL)
        /\ plan[u].op = "try_pop_v" /\ pc[u] = "idle" /\ result[u] = BoolResult(FALSE)
        /\ head_ = tail_

\* ---- C8 ------------------------------------------------------------------
SuccessfulPops == Cardinality({ i \in 1..Len(popLog) : popLog[i].kind # "absent" })
\* no call was made after t's last one
LastToRun(t) == \A u \in Threads : u > t => todo[u] = plan[u].n

\* C8: with no concurrent operation in flight, every call returns, and empty()
\* returns true exactly when as many pops have succeeded as pushes have
\* completed: true on a fresh queue, false after a push, true again after the
\* pop of that value.
C8_EmptyCounts ==
    Ordered /\ (\E t \in Threads : plan[t].op = "empty" /\ plan[t].n > 0) =>
        /\ ~crashed
        /\ \A t \in Threads :
              /\ plan[t].op = "empty"
              /\ pc[t] = "idle"
              /\ result[t].kind = "bool"
              /\ LastToRun(t)
              => result[t] = BoolResult(Len(pushLog) = SuccessfulPops)

\* ---- C9 ------------------------------------------------------------------
\* C9: push never blocks indefinitely: under fair scheduling every push call
\* returns, whatever the consumers are doing.
C9_PushReturns ==
    \A t \in Threads : (plan[t].op = "push" /\ pc[t] # "idle") ~> (pc[t] = "idle")

\* ---- C10 -----------------------------------------------------------------
\* C10: try_pop(value) is try_pop() with another way of reporting: when it
\* returns true, value holds the payload try_pop() would have returned, the
\* payload of the node it detached.
C10_TryPopShapesAgree ==
    \A i \in 1..Len(popLog) :
        plan[popLog[i].thread].op = "try_pop_v" /\ popLog[i].kind # "absent"
            => /\ popLog[i].kind = "payload"
               /\ popLog[i].detached # NULL
               /\ popLog[i].ref = node_data[popLog[i].detached]

\* ---- C11 -----------------------------------------------------------------
\* t's push call ends in this step with the exception
PushThrows(t) == plan[t].op = "push" /\ pc[t] = "idle" /\ todo'[t] # todo[t] /\ pc'[t] = "idle"
\* t's push leaves its tail_lock scope in this step
PushLeavesLock(t) == pc[t] = "p_unlock" /\ pc'[t] # pc[t]
\* t's push notifies and returns in this step
PushSignals(t) == pc[t] = "p_notify" /\ pc'[t] # pc[t]
\* t reads tail_ under tail_mutex_ in this step
ReadsTail(t) == pc[t] = "gt_read" /\ pc'[t] # pc[t]
\* the tail node is an empty placeholder
TailIsPlaceholder == node_data[tail_] = NULL /\ node_next[tail_] = NULL
\* t pushed: its payload is in the node that was the tail, its node is linked
\* behind that node and is the tail
PushDone(t) ==
    /\ tail_ = node[t]
    /\ TailIsPlaceholder
    /\ pushLog # <<>> /\ pushLog[Len(pushLog)] = ldata[t]
    /\ \E o \in 1..nnodes : node_data[o] = ldata[t] /\ node_next[o] = node[t]
\* nothing of t's push is in the list
PushNotBegun(t) ==
    /\ ldata[t] \notin Pushed
    /\ \A o \in 1..nnodes : node_data[o] # ldata[t] /\ node_next[o] # node[t]
    /\ tail_ # node[t]

\* C11: push is all-or-nothing.  A push whose allocation fails ends with the
\* exception and leaves head_, tail_, every node, the waiting threads and every
\* other thread as they were; a push that leaves its critical section has
\* stored the payload in the old tail node, linked its node and made it the
\* tail, and then wakes exactly one waiting thread if there is one; and a
\* thread that reads tail_ under tail_mutex_ finds an empty tail node and every
\* push either done or not begun.
C11_PushAllOrNothing ==
    [][\A t \in Threads :
          /\ PushThrows(t) =>
                /\ result'[t] = BadAlloc
                /\ UNCHANGED <<head_, tail_, node_data, node_next, live, waiters,
                               pushLog, pc, locks>>
          /\ PushLeavesLock(t) => PushDone(t) /\ tail_mutex_' = NoOwner
          /\ PushSignals(t) =>
                /\ pc'[t] = "idle"
                /\ IF waiters = {} THEN waiters' = {}
                   ELSE \E w \in waiters : /\ waiters' = waiters \ {w}
                                            /\ pc'[w] = "cv_relock"
          /\ ReadsTail(t) =>
                /\ TailIsPlaceholder
                /\ \A u \in Threads :
                      plan[u].op = "push" /\ pc[u] # "idle" =>
                         \/ pc[u] = "p_lock" /\ PushNotBegun(u)
                         \/ pc[u] = "p_notify" /\ ldata[u] \in Pushed]_vars

\* one push has failed, another has left its critical section and not yet
\* notified, and a thread is reading tail_ under tail_mutex_
C11_Witness ==
    \E t, u, v \in Threads :
        /\ result[t] = BadAlloc
        /\ pc[u] = "gt_read"
        /\ pc[v] = "p_notify" /\ ldata[v] \in Pushed

\* ---- C12 -----------------------------------------------------------------
PopOps == HeadOps \ {"empty"}
\* one push on the fresh queue, nobody waiting, and when it has returned one
\* call of a pop operation by the only consumer
PushThenPopPlan ==
    /\ Ordered
    /\ plan[1].op = "push" /\ plan[1].n = 1
    /\ plan[2].op \in PopOps /\ plan[2].n = 1
    /\ \A t \in 3..NThreads : plan[t].n = 0
\* t's call has returned payload k, in the way of its overload
Got(t, k) ==
    /\ Finished(t)
    /\ IF plan[t].op \in {"try_pop", "wait_and_pop"}
       THEN result[t] = PtrResult(k)
       ELSE result[t] = BoolResult(TRUE) /\ value[t] = PayloadValue(k)

\* C12: a push that finds no consumer waiting does not lose its value: the
\* next try_pop or wait_and_pop call, with no other consumer, returns that
\* value, and a wait_and_pop that starts on the non-empty queue does so without
\* sleeping and without another push or notification.
C12_PushedValueKept ==
    PushThenPopPlan =>
        /\ [](bad_allocs = 0 => pc[2] \notin {"cv_wait", "blocked"})
        /\ <>(bad_allocs > 0 \/ Got(2, 1))

\* ---- C13 -----------------------------------------------------------------
\* the nodes of the list that starts at p
Chain(p) == Owned(p, {})
\* no push is between storing its payload and advancing tail_, no pop between
\* detaching a node and returning
NothingHalfDone == \A t \in Threads : pc[t] \notin {"p_next", "p_tail", "ph_next", "ph_ret"}

\* C13: the list always has at least one node: head_ refers to a node (it is
\* never null, inside pop_head included), tail_ is reached from head_ by next
\* links, and head_ and tail_ are the same node exactly when every value
\* stored was taken out again.
C13_HeadNeverNull ==
    /\ head_ # NULL
    /\ Valid(head_)
    /\ tail_ \in Chain(head_)
    /\ NothingHalfDone => (head_ = tail_ <=> Len(pushLog) = SuccessfulPops)

\* ---- C14 -----------------------------------------------------------------
Succeeded(e) == e.kind # "absent"
\* the pops that detached a node, in the order of their head_mutex_ sections
PopOrder == SelectSeq(popLog, Succeeded)

\* C14: global FIFO.  Under any interleaving of producers and consumers, the
\* pops, in the order of their head_mutex_ critical sections, return the
\* payloads in the order in which the pushes stored them under tail_mutex_:
\* the i-th pop that succeeds returns the payload of the i-th push.
C14_GlobalFifo ==
    \A i \in 1..Len(PopOrder) :
        PopOrder[i].kind = "payload" =>
            /\ i <= Len(pushLog)
            /\ PopOrder[i].ref = pushLog[i]

\* ---- C15 -----------------------------------------------------------------
\* t, in wait_and_pop, takes a step
WaitStep(t) == plan[t].op \in WaitOps /\ pc'[t] # pc[t]

\* C15: wait_and_pop never detaches a node while head_ is the tail.  A thread
\* woken from the wait, by a notification or spuriously, takes head_mutex_ and
\* evaluates the predicate again; when the predicate finds head_ at the tail
\* the thread goes back to waiting; and when the thread reads the head node's
\* payload or detaches the head node, head_ is a node other than tail_.
C15_NoPopFromEmpty ==
    [][\A t \in Threads :
          /\ WaitStep(t) /\ pc[t] = "cv_relock" =>
                head_mutex_' = t /\ pc'[t] = "gt_lock"
          /\ WaitStep(t) /\ pc[t] = "cmp" /\ head_ = ltail[t] =>
                pc'[t] = "cv_wait" /\ UNCHANGED <<head_, tail_, heap>>
          /\ WaitStep(t) /\ pc[t] \in {"wv_move", "ph_move"} =>
                head_mutex_ = t /\ head_ # tail_]_vars

\* ---- C16 -----------------------------------------------------------------
\* no push is inside its tail_mutex_ critical section (lines 52-57)
NoPushInside == \A t \in Threads : pc[t] \notin {"p_data", "p_next", "p_tail", "p_unlock"}
\* the values in the queue: the nodes of the list, less the placeholder
LogicalLength == Cardinality(Chain(head_)) - 1

\* C16: whenever no push is inside its critical section, tail_ refers to a
\* node that carries no payload and has no next link; and every completed
\* push has made the old tail a node with a payload and a fresh empty node the
\* tail, adding one to the length of the queue: with no operation half done,
\* the list holds as many values as pushes stored less pops took out.
C16_TailIsEmptySlot ==
    /\ NoPushInside => Valid(tail_) /\ TailIsPlaceholder
    /\ NothingHalfDone => LogicalLength = Len(pushLog) - SuccessfulPops

\* ---- C17 -----------------------------------------------------------------
\* t is suspended in data_cond_.wait
Sleeping(t) == pc[t] = "blocked"

\* C17: a consumer sleeping in wait_and_pop does not hold head_mutex_, only
\* wait_and_pop ever suspends its caller, and so, under fair scheduling, every
\* try_pop and every empty call returns, whoever is asleep.
C17_SleeperHoldsNoLock ==
    /\ [](\A t \in Threads : Sleeping(t) => plan[t].op \in WaitOps /\ head_mutex_ # t)
    /\ \A t \in Threads :
          (plan[t].op \notin WaitOps \cup {"push"} /\ pc[t] # "idle") ~> (pc[t] = "idle")

\* ---- C18 -----------------------------------------------------------------
\* t, in a pop operation, takes a step
PopStep(t) == plan[t].op \in PopOps /\ pc'[t] # pc[t]
\* what t's call hands its caller in this step is payload d
Yields(t, d) ==
    IF plan[t].op \in {"try_pop", "wait_and_pop"}
    THEN result'[t] = PtrResult(d)
    ELSE value'[t] = PayloadValue(d)

\* C18: each successful pop detaches the current head node, advances head_ to
\* the next node, and yields that next node's payload, the payload of the node
\* that is head after the advance, as the result.
C18_PopYieldsNextPayload ==
    [][\A t \in Threads :
          /\ PopStep(t) /\ pc[t] = "ph_move" =>
                head_ # NULL /\ old_head'[t] = head_
          /\ PopStep(t) /\ pc[t] = "ph_next" =>
                head_' # NULL /\ head_' = node_next[old_head[t]]
          /\ PopStep(t) /\ pc[t] = "ph_ret" =>
                head_ # NULL /\ Yields(t, node_data[head_])]_vars

\* ---- C19 -----------------------------------------------------------------
\* p is a node of the list that a push has filled and linked, that push has
\* left its critical section, and p is not the tail
FilledByPush(p) ==
    /\ Valid(p)
    /\ p # tail_
    /\ node_data[p] # NULL
    /\ \A u \in Threads : ldata[u] = node_data[p] => pc[u] = "p_notify"

\* C19: producers and consumers never touch the same node at the same time.
\* Whenever a pop, holding only head_mutex_, reads the payload or the next
\* link of the head node, that node is not the tail and was completely
\* written, payload and link, by a push that has released tail_mutex_: every
\* detached node has a payload and a next node.
C19_PopReadsFilledNode ==
    [][\A t \in Threads :
          /\ PopStep(t) /\ pc[t] = "wv_move" =>
                FilledByPush(head_) /\ node_next[head_] # NULL
          /\ PopStep(t) /\ pc[t] = "ph_next" =>
                /\ tail_mutex_ # t
                /\ FilledByPush(PopHeadFrom(t))
                /\ node_next[PopHeadFrom(t)] # NULL
          /\ PopStep(t) /\ pc[t] = "ph_ret" /\ plan[t].op \in {"try_pop", "wait_and_pop"} =>
                FilledByPush(old_head[t])]_vars

\* ---- C20 -----------------------------------------------------------------
\* t's try_pop returns absent in this step
ReturnsAbsent(t) ==
    /\ plan[t].op \in TryOps
    /\ pc[t] = "cmp" /\ pc'[t] = "idle"
    /\ result'[t] = AbsentResult(t)

\* C20: try_pop never reports a false empty.  A call returns absent only for
\* the tail it read under tail_mutex_ being the head; at the instant of that
\* read every value a push had stored before releasing tail_mutex_ had been
\* detached by a pop; and a try_pop that is the only consumer and starts after
\* a push has returned does not return absent.
C20_NoFalseEmpty ==
    [][\A t \in Threads :
          /\ ReturnsAbsent(t) => head_ = ltail[t]
          /\ TryStep(t) /\ pc[t] = "gt_read" /\ head_ = tail_ =>
                Len(pushLog) = SuccessfulPops
          /\ ReturnsAbsent(t) /\ PushThenPopPlan /\ bad_allocs = 0 => FALSE]_vars

====
